---- MODULE Spec2Model ----
(***************************************************************************)
(* Model of synthetic_market_maker.py: Order, OrderBook.place_order and    *)
(* OrderBook.match_orders (specification Spec), and MarketMaker with the   *)
(* rounds of simulate_market (specification SimSpec).                      *)
(*                                                                         *)
(* Prices are exact rationals [n, d] (d > 0, lowest terms) so that the     *)
(* midpoint and the mean of trade prices are computed, not assumed.  Sizes *)
(* are integers: the code only takes min and differences of sizes.         *)
(* Non-finite floats (inf, nan) are outside the model.                     *)
(***************************************************************************)
EXTENDS Integers, Sequences, FiniteSets, TLC

\* ---------------------------------------------------------------- bounds
MaxOrders == 3          \* number of Order(...) constructions in one behaviour
PriceSpan == 1          \* order prices range over InitialMid..InitialMid + PriceSpan
MaxSize   == 2          \* largest size of a placed order
MinSize   == 0 - 1      \* smallest size of a placed order (sizes are not validated)
Days        == 2        \* simulate_market(days): number of rounds
MaxExternal == 1        \* most external orders modelled in one round
\* cap of the local list `trades`: more than the orders a book can hold
MaxTrades == 2 * MaxOrders + Days * (2 + MaxExternal)

\* ------------------------------------------------------- program constants
InitialMid == 100       \* OrderBook.__init__: self.mid_price = 100.0

Spread     == 1         \* MarketMaker.__init__: spread = 1.0
QuoteSize  == 10        \* MarketMaker.__init__: size = 10.0
ExtMin     == 1         \* random.randint(1, 5)
ExtMax     == 5
PerturbPct == 2         \* random.uniform(-0.02, 0.02), in hundredths
SizeLow    == 5         \* random.uniform(5, 20)
SizeHigh   == 20

Prices == InitialMid..(InitialMid + PriceSpan)
Sizes  == MinSize..MaxSize
Sides  == {"buy", "sell"}
\* what a caller may pass as side: the two sides and one string that is neither
AnySide == Sides \cup {"hold"}

\* ------------------------------------------------------ float arithmetic
Abs(x) == IF x < 0 THEN 0 - x ELSE x

RECURSIVE GCD(_, _)
GCD(a, b) == IF b = 0 THEN a ELSE GCD(b, a % b)

Norm(n, d) == LET g == GCD(Abs(n), d) IN [n |-> n \div g, d |-> d \div g]

ToFloat(i) == [n |-> i, d |-> 1]

\* the least common denominator of two floats
LCD(x, y) == (x.d \div GCD(x.d, y.d)) * y.d

\* In RatAdd, RatMul and RatDivInt the operands are bound through a set
\* so that a nested operand is evaluated once.
RatAdd(x, y) ==
    CHOOSE r \in {Norm(a.n * (LCD(a, b) \div a.d) + b.n * (LCD(a, b) \div b.d), LCD(a, b)) :
                     a \in {x}, b \in {y}} : TRUE

RatNeg(x) == [n |-> 0 - x.n, d |-> x.d]

RatDivInt(x, k) ==
    CHOOSE r \in {Norm(a.n \div GCD(Abs(a.n), k), a.d * (k \div GCD(Abs(a.n), k))) :
                     a \in {x}} : TRUE

RatMul(x, y) ==
    CHOOSE r \in {Norm((a.n \div GCD(Abs(a.n), b.d)) * (b.n \div GCD(Abs(b.n), a.d)),
                       (a.d \div GCD(Abs(b.n), a.d)) * (b.d \div GCD(Abs(a.n), b.d))) :
                     a \in {x}, b \in {y}} : TRUE

RatLeq(x, y) == LET l == LCD(x, y) IN x.n * (l \div x.d) <= y.n * (l \div y.d)

RatLess(x, y) == LET l == LCD(x, y) IN x.n * (l \div x.d) < y.n * (l \div y.d)

\* ------------------------------------------------------------------ Order
ValidSideAny(side) == TRUE

\* the assertion of Order.__init__, line 8
ValidSide(side) == side \in {"buy", "sell"}

\* Order.__init__; id is the identity of the Python object, numbered by
\* arrival.
Order(price, size, side, id) ==
    [price |-> ToFloat(price), size |-> size, side |-> side, id |-> id]

\* Order.__init__ called with a price that is a float already
FloatOrder(price, size, side, id) ==
    [price |-> price, size |-> size, side |-> side, id |-> id]

Range(s) == {s[i] : i \in 1..Len(s)}

Ids(s) == {s[i].id : i \in 1..Len(s)}

\* -------------------------------------------------------------- list.sort
\* list.sort(key=...) is a stable ascending sort on the key.  The items are
\* records [key, val]; each item is inserted behind every item whose key is
\* not greater.
InsertUnstable(sorted, x) ==
    LET n == Cardinality({i \in 1..Len(sorted) : RatLess(sorted[i].key, x.key)})
    IN  SubSeq(sorted, 1, n) \o <<x>> \o SubSeq(sorted, n + 1, Len(sorted))

InsertStable(sorted, x) ==
    LET n == Cardinality({i \in 1..Len(sorted) : RatLeq(sorted[i].key, x.key)})
    IN  SubSeq(sorted, 1, n) \o <<x>> \o SubSeq(sorted, n + 1, Len(sorted))

RECURSIVE StableSort(_)
StableSort(s) ==
    IF s = <<>> THEN <<>>
    ELSE InsertStable(StableSort(SubSeq(s, 1, Len(s) - 1)), s[Len(s)])

BuyKeyAscending(o) == o.price

BuyKey(o) == RatNeg(o.price)

SellKey(o) == o.price

SortBuys(bs) ==
    LET keyed  == [i \in 1..Len(bs) |-> [key |-> BuyKey(bs[i]), val |-> bs[i]]]
        sorted == StableSort(keyed)
    IN  [i \in 1..Len(bs) |-> sorted[i].val]

SortSells(ss) ==
    LET keyed  == [i \in 1..Len(ss) |-> [key |-> SellKey(ss[i]), val |-> ss[i]]]
        sorted == StableSort(keyed)
    IN  [i \in 1..Len(ss) |-> sorted[i].val]

\* ------------------------------------------------------------------ state
VARIABLES
    buys,       \* OrderBook.buys
    sells,      \* OrderBook.sells
    mid_price,  \* OrderBook.mid_price
    pc,         \* "idle" between calls, "loop" inside match_orders
    trades,     \* the local list of match_orders
    ret,        \* the list returned by the last completed call (<<>> for place_order)
    err,        \* "none", or the exception the last call raised
    nextId,     \* arrival number of the next order
    last,       \* the last call made: [op, args]
    pre,        \* the book as it was when the current/last match_orders was entered
    partial,    \* ids of resting orders whose size a trade has reduced
    day,            \* simulate_market: rounds completed
    phase,          \* simulate_market: what the round does next
    ext_left,       \* simulate_market: iterations left of the loop at line 72
    price_history   \* simulate_market: price_history

simvars == <<day, phase, ext_left, price_history>>

vars == <<buys, sells, mid_price, pc, trades, ret, err, nextId, last, pre, partial,
          day, phase, ext_left, price_history>>

NoSnapshot == [buys |-> <<>>, sells |-> <<>>, mid |-> ToFloat(InitialMid), op |-> "none"]

Init ==
    /\ buys = <<>>
    /\ sells = <<>>
    /\ mid_price = ToFloat(InitialMid)
    /\ pc = "idle"
    /\ trades = <<>>
    /\ ret = <<>>
    /\ err = "none"
    /\ nextId = 1
    /\ last = [op |-> "init", args |-> <<>>]
    /\ pre = NoSnapshot
    /\ partial = {}
    /\ day = 0
    /\ phase = "provide"
    /\ ext_left = 0
    /\ price_history = <<>>

\* ------------------------------------------------------------ place_order
PlaceReplacing(book, o) ==
    IF o.side = "buy"
    THEN SortBuys(SelectSeq(book, LAMBDA r : r.price # o.price) \o <<o>>)
    ELSE SortSells(SelectSeq(book, LAMBDA r : r.price # o.price) \o <<o>>)

PlaceInto(book, o) ==
    IF o.side = "buy" THEN SortBuys(Append(book, o)) ELSE SortSells(Append(book, o))

\* place_order on the two lists, lines 24-29
Placed(bs, ss, o) ==
    IF o.side = "buy"
    THEN [buys |-> PlaceInto(bs, o), sells |-> ss]
    ELSE [buys |-> bs, sells |-> PlaceInto(ss, o)]

\* ob.place_order(Order(price, size, side)): Order.__init__ raises when the
\* side is not valid and place_order is then never entered.
PlaceOrder(price, size, side) ==
    /\ pc = "idle"
    /\ nextId <= MaxOrders
    /\ IF ValidSide(side)
       THEN /\ LET bk == Placed(buys, sells, Order(price, size, side, nextId))
               IN  buys' = bk.buys /\ sells' = bk.sells
            /\ last' = [op |-> "place", args |-> <<price, size, side>>]
            /\ err' = "none"
       ELSE /\ UNCHANGED <<buys, sells>>
            /\ last' = [op |-> "order", args |-> <<side>>]
            /\ err' = "AssertionError"
    /\ nextId' = nextId + 1
    /\ ret' = <<>>
    /\ pre' = NoSnapshot
    /\ UNCHANGED <<mid_price, pc, trades, partial>>
    /\ UNCHANGED simvars

\* ----------------------------------------------------------- match_orders
CrossesStrict(bs, ss) ==
    /\ bs # <<>>
    /\ ss # <<>>
    /\ RatLess(ss[1].price, bs[1].price)

\* the loop condition, line 33
Crosses(bs, ss) ==
    /\ bs # <<>>
    /\ ss # <<>>
    /\ RatLeq(ss[1].price, bs[1].price)

TradePriceResting(b, s) == s.price

\* line 34
TradePrice(b, s) == RatDivInt(RatAdd(b.price, s.price), 2)

MaxOf(a, b) == IF b > a THEN b ELSE a

\* min(a, b), line 35
MinOf(a, b) == IF b < a THEN b ELSE a

TradeSize(b, s) == MinOf(b.size, s.size)

RECURSIVE SumPrices(_)
SumPrices(ts) ==
    IF ts = <<>> THEN ToFloat(0) ELSE RatAdd(SumPrices(Tail(ts)), ts[1].price)

NewMidReset(ts, mid) ==
    IF ts # <<>> THEN RatDivInt(SumPrices(ts), Len(ts)) ELSE ToFloat(InitialMid)

NewMidRunning(ts, mid) ==
    IF ts # <<>> THEN RatDivInt(RatAdd(SumPrices(ts), mid), Len(ts) + 1) ELSE mid

\* lines 43-45
NewMid(ts, mid) ==
    IF ts # <<>> THEN RatDivInt(SumPrices(ts), Len(ts)) ELSE mid

FilledStrict(o) == o.size < 0

FilledAtOne(o) == o.size <= 1

\* the removal tests, lines 39 and 41
Filled(o) == o.size <= 0

PopRotate(s) == Tail(s) \o <<Head(s)>>

\* list.pop(0), lines 40 and 42
PopFront(s) == Tail(s)

AskFrontOfBids(bs, ss) == bs

\* the list whose front line 41 reads, given buys as lines 39-40 left it
\* and sells as line 38 left it: self.sells
AskFront(bs, ss) == ss

\* entry of match_orders, line 32
MatchEnter ==
    /\ pc = "idle"
    /\ pc' = "loop"
    /\ trades' = <<>>
    /\ err' = "none"
    /\ pre' = [buys |-> buys, sells |-> sells, mid |-> mid_price, op |-> last.op]
    /\ last' = [op |-> "match", args |-> <<>>]
    /\ UNCHANGED <<buys, sells, mid_price, ret, nextId, partial>>

MatchCall ==
    /\ MatchEnter
    /\ UNCHANGED simvars

\* one iteration of the while loop, lines 33-42
MatchIter ==
    /\ pc = "loop"
    /\ Crosses(buys, sells)
    /\ Len(trades) < MaxTrades
    /\ LET trade_price == TradePrice(buys[1], sells[1])
           trade_size  == TradeSize(buys[1], sells[1])
           b1 == [buys EXCEPT ![1].size = @ - trade_size]
           s1 == [sells EXCEPT ![1].size = @ - trade_size]
           b2 == IF Filled(b1[1]) THEN PopFront(b1) ELSE b1
           f  == AskFront(b2, s1)
       IN  \* bid and ask name the two orders of the trade (not in the dict)
           /\ trades' = Append(trades, [price |-> trade_price, size |-> trade_size,
                                        bid |-> buys[1].id, ask |-> sells[1].id])
           /\ buys' = b2
           /\ IF f = <<>>
              THEN /\ err' = "IndexError"
                   /\ sells' = s1
                   /\ pc' = "idle"
              ELSE /\ err' = err
                   /\ sells' = IF Filled(f[1]) THEN PopFront(s1) ELSE s1
                   /\ pc' = pc
           /\ partial' = (partial
                           \cup (IF b1[1].size # buys[1].size THEN {buys[1].id} ELSE {})
                           \cup (IF s1[1].size # sells[1].size THEN {sells[1].id} ELSE {}))
                         \cap (Ids(buys') \cup Ids(sells'))
    /\ UNCHANGED <<mid_price, ret, nextId, last, pre>>
    /\ UNCHANGED simvars

\* loop exit and lines 43-46
MatchReturn ==
    /\ pc = "loop"
    /\ ~Crosses(buys, sells)
    /\ mid_price' = NewMid(trades, mid_price)
    /\ ret' = trades
    /\ pc' = "idle"
    /\ UNCHANGED <<buys, sells, trades, err, nextId, last, pre, partial>>
    /\ UNCHANGED simvars

Next ==
    \/ \E price \in Prices, size \in Sizes, side \in AnySide : PlaceOrder(price, size, side)
    \/ MatchCall
    \/ MatchIter
    \/ MatchReturn

Spec == Init /\ [][Next]_vars

\* match_orders runs to completion on the caller's thread: once entered, its
\* loop keeps stepping.
FairSpec == Spec /\ WF_vars(MatchIter) /\ WF_vars(MatchReturn)

\* ------------------------------------------------------------ MarketMaker
QuoteOffsetFull(spread) == spread

\* self.spread / 2, lines 60-61
QuoteOffset(spread) == RatDivInt(spread, 2)

\* MarketMaker.provide_liquidity, lines 58-61
ProvideLiquidity ==
    /\ pc = "idle"
    /\ LET mid == mid_price
           bid == FloatOrder(RatAdd(mid, RatNeg(QuoteOffset(ToFloat(Spread)))),
                             QuoteSize, "buy", nextId)
           bk1 == Placed(buys, sells, bid)
           ask == FloatOrder(RatAdd(mid, QuoteOffset(ToFloat(Spread))),
                             QuoteSize, "sell", nextId + 1)
           bk2 == Placed(bk1.buys, bk1.sells, ask)
       IN  /\ buys' = bk2.buys
           /\ sells' = bk2.sells
    /\ nextId' = nextId + 2
    /\ last' = [op |-> "provide", args |-> <<>>]
    /\ err' = "none"
    /\ ret' = <<>>
    /\ pre' = NoSnapshot
    /\ UNCHANGED <<mid_price, pc, trades, partial>>

\* -------------------------------------------------------- simulate_market
ExtCountsFromZero == 0..MinOf(ExtMax, MaxExternal)

\* random.randint(1, 5), line 72, cut at MaxExternal
ExtCounts == ExtMin..MinOf(ExtMax, MaxExternal)

\* random.uniform(-0.02, 0.02), line 74: the two ends of the interval
Perturbs == {[n |-> 0 - PerturbPct, d |-> 100], [n |-> PerturbPct, d |-> 100]}

\* random.uniform(5, 20), line 75: the two ends of the interval
ExtSizes == {SizeLow, SizeHigh}

\* lines 70 and 72: the quotes, then the number of external orders
SimProvide ==
    /\ phase = "provide"
    /\ day < Days
    /\ ProvideLiquidity
    /\ \E n \in ExtCounts :
           /\ ext_left' = n
           /\ phase' = IF n = 0 THEN "match" ELSE "external"
    /\ UNCHANGED <<day, price_history>>

\* one iteration of the loop at lines 72-76
SimExternal(side, u, size) ==
    /\ phase = "external"
    /\ ext_left > 0
    /\ pc = "idle"
    /\ LET price == RatMul(mid_price, RatAdd(ToFloat(1), u))
           bk == Placed(buys, sells, FloatOrder(price, size, side, nextId))
       IN  /\ buys' = bk.buys
           /\ sells' = bk.sells
           /\ last' = [op |-> "place", args |-> <<price, size, side>>]
    /\ nextId' = nextId + 1
    /\ err' = "none"
    /\ ret' = <<>>
    /\ pre' = NoSnapshot
    /\ ext_left' = ext_left - 1
    /\ phase' = IF ext_left' = 0 THEN "match" ELSE "external"
    /\ UNCHANGED <<mid_price, pc, trades, partial, day, price_history>>

\* line 77: the call; its loop and return are MatchIter and MatchReturn
SimMatch ==
    /\ phase = "match"
    /\ MatchEnter
    /\ phase' = "record"
    /\ UNCHANGED <<day, ext_left, price_history>>

\* line 78, and the end of the round
SimRecord ==
    /\ phase = "record"
    /\ pc = "idle"
    /\ price_history' = Append(price_history, mid_price)
    /\ day' = day + 1
    /\ phase' = IF day' < Days THEN "provide" ELSE "done"
    /\ last' = [op |-> "record", args |-> <<>>]
    /\ UNCHANGED <<buys, sells, mid_price, pc, trades, ret, err, nextId, pre, partial,
                   ext_left>>

SimNext ==
    \/ SimProvide
    \/ \E side \in Sides, u \in Perturbs, size \in ExtSizes : SimExternal(side, u, size)
    \/ SimMatch
    \/ MatchIter
    \/ MatchReturn
    \/ SimRecord

SimSpec == Init /\ [][SimNext]_vars

\* ======================================================================
\* Properties
\* ======================================================================
Book == Range(buys) \cup Range(sells)

AtRest == pc = "idle" /\ err # "IndexError"

AfterMatch == AtRest /\ last.op = "match"

AfterPlace == AtRest /\ last.op = "place"

RECURSIVE SumSizes(_)
SumSizes(s) == IF s = <<>> THEN 0 ELSE s[1].size + SumSizes(Tail(s))

\* twice the sum of the trade prices, as an integer (a midpoint of two
\* integer prices has denominator 1 or 2)
RECURSIVE TwiceSum(_)
TwiceSum(ts) ==
    IF ts = <<>> THEN 0 ELSE (2 * ts[1].price.n) \div ts[1].price.d + TwiceSum(Tail(ts))

\* ---------------------------------------------------------------------
\* C1: No-cross-at-rest.  In the state right after a match_orders call has
\* returned, it is false that buys and sells are both non-empty with
\* buys[0].price >= sells[0].price.
C1_NoCrossAtRest ==
    AfterMatch =>
        ~(/\ buys # <<>>
          /\ sells # <<>>
          /\ buys[1].price.n * sells[1].price.d >= sells[1].price.n * buys[1].price.d)

\* a match that traded and left orders resting on both sides
C1_Witness ==
    /\ AfterMatch
    /\ ret # <<>>
    /\ buys # <<>>
    /\ sells # <<>>

\* ---------------------------------------------------------------------
\* C2: Ordering invariant.  Between calls, no bid is followed by a bid with
\* a higher price and no ask is followed by an ask with a lower price.
C2_Ordering ==
    AtRest =>
        /\ \A i, j \in 1..Len(buys) :
               i < j => RatLeq(buys[j].price, buys[i].price)
        /\ \A i, j \in 1..Len(sells) :
               i < j => RatLeq(sells[i].price, sells[j].price)

\* a later, higher bid was sorted ahead of an earlier, lower one
C2_Witness ==
    /\ AfterPlace
    /\ Len(buys) = 2
    /\ buys[1].id > buys[2].id
    /\ RatLess(buys[2].price, buys[1].price)

\* ---------------------------------------------------------------------
\* C3: Price-time priority.  Orders of one side with equal price rest in
\* arrival order (a new order goes behind every resting order of its price,
\* partially filled ones included), and a step of match_orders fills an
\* order (reduces its size or removes it) only if no order of the same
\* side with a better price, or the same price and an earlier arrival, is
\* resting.
Fifo(s) ==
    \A i, j \in 1..Len(s) :
        (i < j /\ s[i].price = s[j].price) => s[i].id < s[j].id

Ahead(o2, o) ==
    /\ o2.side = o.side
    /\ o2.id # o.id
    /\ \/ IF o.side = "buy" THEN RatLess(o.price, o2.price) ELSE RatLess(o2.price, o.price)
       \/ o2.price = o.price /\ o2.id < o.id

C3_PriceTimePriority ==
    [][/\ Fifo(buys') /\ Fifo(sells')
       /\ \A o \in Book :
              (\A q \in Range(buys') \cup Range(sells') : q.id = o.id => q.size # o.size)
                  => \A o2 \in Book : ~Ahead(o2, o)]_vars

\* a new bid was placed behind a partially filled bid of the same price
C3_Witness ==
    /\ AfterPlace
    /\ Len(buys) >= 2
    /\ buys[1].price = buys[2].price
    /\ buys[1].id \in partial
    /\ buys[2].id = nextId - 1

\* ---------------------------------------------------------------------
\* C4: Reference price update rule.  After a match_orders call that
\* returned k >= 1 trades, mid_price is the arithmetic mean of the prices of
\* those k trades; after a call that returned none, mid_price is what it was
\* when the call was made.
C4_MidPriceRule ==
    AfterMatch =>
        IF ret = <<>>
        THEN mid_price = pre.mid
        ELSE /\ mid_price.n * 2 * Len(ret) = mid_price.d * TwiceSum(ret)
             /\ mid_price.d > 0
             /\ GCD(Abs(mid_price.n), mid_price.d) = 1

\* a call that returned two trades of different prices, with a mean that
\* differs from the mid price before the call
C4_Witness ==
    /\ AfterMatch
    /\ Len(ret) >= 2
    /\ ret[1].price # ret[2].price
    /\ mid_price # pre.mid

\* ---------------------------------------------------------------------
\* C5: place_order never matches.  A place_order step adds exactly the
\* order it was given to the collection of its side, and leaves mid_price,
\* the other collection and every resting order unchanged, producing no
\* trade; mid_price changes only in the return of a match_orders call that
\* made at least one trade.
PlaceFrame ==
    LET o == [price |-> [n |-> last'.args[1], d |-> 1], size |-> last'.args[2],
              side |-> last'.args[3], id |-> nextId]
    IN  /\ mid_price' = mid_price
        /\ trades' = trades
        /\ ret' = <<>>
        /\ IF o.side = "buy"
           THEN /\ sells' = sells
                /\ Len(buys') = Len(buys) + 1
                /\ Range(buys') = Range(buys) \cup {o}
           ELSE /\ buys' = buys
                /\ Len(sells') = Len(sells) + 1
                /\ Range(sells') = Range(sells) \cup {o}

C5_PlaceNeverMatches ==
    [][/\ (nextId' # nextId /\ err' = "none") => PlaceFrame
       /\ mid_price' # mid_price => (pc = "loop" /\ pc' = "idle" /\ ret' # <<>>)]_vars

\* the order just placed crosses the opposite best price and nothing traded
C5_Witness ==
    /\ AfterPlace
    /\ buys # <<>>
    /\ sells # <<>>
    /\ RatLess(sells[1].price, buys[1].price)
    /\ buys[1].id = nextId - 1
    /\ Len(buys) >= 2
    /\ mid_price = ToFloat(InitialMid)

\* ---------------------------------------------------------------------
\* C6: Fill accounting.  Inside match_orders no order's size increases, no
\* order is left with a negative size, and an order whose size a trade
\* brings to zero is removed in that same iteration.
C6_FillAccounting ==
    [][pc = "loop" =>
         /\ \A q \in Range(buys') \cup Range(sells') : q.size >= 0
         /\ \A o \in Book : \A q \in Range(buys') \cup Range(sells') :
                q.id = o.id => /\ q.size <= o.size
                               /\ q.size # o.size => q.size # 0]_vars

\* ---------------------------------------------------------------------
\* C7: Conservation.  Across one match_orders call each side loses exactly
\* the sum of the sizes of the returned trades, so the book loses twice
\* that sum.
C7_Conservation ==
    AfterMatch =>
        /\ SumSizes(pre.buys) - SumSizes(buys) = SumSizes(ret)
        /\ SumSizes(pre.sells) - SumSizes(sells) = SumSizes(ret)
        /\ (SumSizes(pre.buys) + SumSizes(pre.sells)) - (SumSizes(buys) + SumSizes(sells))
               = 2 * SumSizes(ret)

\* a call that made two trades and left a partially filled order resting
C7_Witness ==
    /\ AfterMatch
    /\ Len(ret) >= 2
    /\ SumSizes(ret) > 0
    /\ partial # {}

\* ---------------------------------------------------------------------
\* C8: Termination.  Every match_orders call that is entered returns.
C8_Termination == (pc = "loop") ~> (pc = "idle")

\* a call whose loop ran twice has returned
C8_Witness ==
    /\ AfterMatch
    /\ Len(ret) >= 2

\* ---------------------------------------------------------------------
\* C9: Positive sizes.  Every emitted trade has size > 0 and every resting
\* order has size > 0.
C9_PositiveSizes ==
    /\ \A o \in Book : o.size > 0
    /\ \A i \in 1..Len(trades) : trades[i].size > 0
    /\ \A i \in 1..Len(ret) : ret[i].size > 0

\* ---------------------------------------------------------------------
\* C10: No-op match.  A match_orders call made on a book that does not
\* cross, and in particular one made directly after another match_orders
\* call, returns no trade and leaves buys, sells and mid_price as they were.
C10_NoOpMatch ==
    (/\ AfterMatch
     /\ \/ pre.op = "match"
        \/ pre.buys = <<>>
        \/ pre.sells = <<>>
        \/ RatLess(pre.buys[1].price, pre.sells[1].price))
    => /\ ret = <<>>
       /\ buys = pre.buys
       /\ sells = pre.sells
       /\ mid_price = pre.mid

\* a second match_orders call directly after one that had moved mid_price,
\* on a book with orders resting on both sides
C10_Witness ==
    /\ AfterMatch
    /\ pre.op = "match"
    /\ buys # <<>>
    /\ sells # <<>>
    /\ mid_price # ToFloat(InitialMid)

\* ---------------------------------------------------------------------
\* C11: Trade records.  Every iteration of match_orders appends one trade
\* to the end of the list; it pairs the best bid and the best ask of that
\* moment, its price is the midpoint of their prices (so it lies between
\* the ask's and the bid's price) and its size is the smaller of their
\* sizes; the call returns the list as built.
C11_TradeRecords ==
    [][/\ (pc = "loop" /\ pc' = "loop") =>
            LET b == buys[1]
                a == sells[1]
                t == trades'[Len(trades')]
            IN  /\ Len(trades') = Len(trades) + 1
                /\ SubSeq(trades', 1, Len(trades)) = trades
                /\ t.bid = b.id
                /\ t.ask = a.id
                /\ \A o \in Range(buys) : RatLeq(o.price, b.price)
                /\ \A o \in Range(sells) : RatLeq(a.price, o.price)
                /\ 2 * t.price.n * b.price.d * a.price.d
                       = t.price.d * (b.price.n * a.price.d + a.price.n * b.price.d)
                /\ RatLeq(a.price, t.price)
                /\ RatLeq(t.price, b.price)
                /\ t.size <= b.size
                /\ t.size <= a.size
                /\ t.size \in {b.size, a.size}
       /\ (pc = "loop" /\ pc' = "idle") => ret' = trades]_vars

\* a returned list of two trades, the first at a price strictly between
\* the prices of its ask and its bid
C11_Witness ==
    /\ AfterMatch
    /\ Len(ret) >= 2
    /\ ret[1].price.d = 2
    /\ ret[1].size > 0

\* ---------------------------------------------------------------------
\* C12: Invalid side.  Constructing an Order with a side that is neither
\* "buy" nor "sell" raises an error to the caller and leaves buys, sells
\* and mid_price as they were; an order is placed only with a valid side,
\* so buys holds only buy orders and sells only sell orders.
C12_InvalidSide ==
    [][/\ \A o \in Range(buys') : o.side = "buy"
       /\ \A o \in Range(sells') : o.side = "sell"
       /\ nextId' # nextId =>
            IF last'.args[Len(last'.args)] \in {"buy", "sell"}
            THEN last'.op = "place" /\ err' = "none"
            ELSE /\ last'.op = "order"
                 /\ err' = "AssertionError"
                 /\ buys' = buys
                 /\ sells' = sells
                 /\ mid_price' = mid_price]_vars

\* an Order with an invalid side was refused while orders rest on both sides
C12_Witness ==
    /\ err = "AssertionError"
    /\ last.args = <<"hold">>
    /\ buys # <<>>
    /\ sells # <<>>

\* ---------------------------------------------------------------------
\* C13: match_orders cannot fail.  No match_orders call raises IndexError:
\* when the front bid has been removed (line 40), the front of sells that
\* line 41 reads is still there, and it is the ask just traded.
C13_MatchCannotFail ==
    /\ err # "IndexError"
    /\ (pc = "loop" /\ trades # <<>>) =>
           LET t == trades[Len(trades)]
           IN  /\ t.bid \in Ids(buys) => buys[1].id = t.bid
               /\ t.ask \in Ids(sells) => sells[1].id = t.ask

\* an iteration removed the last bid and left the ask it traded with,
\* partially filled, at the front of sells
C13_Witness ==
    /\ pc = "loop"
    /\ err = "none"
    /\ trades # <<>>
    /\ buys = <<>>
    /\ sells # <<>>
    /\ sells[1].id = trades[Len(trades)].ask
    /\ sells[1].id \in partial

\* ---------------------------------------------------------------------
\* C14: Liquidity provider.  A provide_liquidity call adds exactly one
\* order to buys, at mid_price - spread/2, and exactly one to sells, at
\* mid_price + spread/2, both of the configured size and both computed
\* from the mid_price at the time of the call; every resting order stays,
\* no trade is made and mid_price is unchanged.
C14_ProvideLiquidity ==
    [][nextId' = nextId + 2 =>
         LET half == Norm(Spread, 2)
             newBids == Range(buys') \ Range(buys)
             newAsks == Range(sells') \ Range(sells)
         IN  /\ Len(buys') = Len(buys) + 1
             /\ Len(sells') = Len(sells) + 1
             /\ Range(buys) \subseteq Range(buys')
             /\ Range(sells) \subseteq Range(sells')
             /\ \E b \in newBids :
                    /\ newBids = {b}
                    /\ b.side = "buy"
                    /\ b.size = QuoteSize
                    /\ RatAdd(b.price, half) = mid_price
             /\ \E a \in newAsks :
                    /\ newAsks = {a}
                    /\ a.side = "sell"
                    /\ a.size = QuoteSize
                    /\ RatAdd(mid_price, half) = a.price
             /\ mid_price' = mid_price
             /\ trades' = trades
             /\ ret' = <<>>
             /\ pc' = "idle"]_vars

\* quotes placed around a mid price that trading has moved, into a book
\* that already holds orders on both sides
C14_Witness ==
    /\ last.op = "provide"
    /\ mid_price # ToFloat(InitialMid)
    /\ Len(buys) >= 2
    /\ Len(sells) >= 2

\* ---------------------------------------------------------------------
\* C15: Round protocol.  In simulate_market every round is one
\* provide_liquidity call, then one or more external place_order calls,
\* then exactly one match_orders call, then the recording of mid_price:
\* the record is made right after the match has returned, with the book
\* not crossed, it appends the mid_price the match left, and after the
\* last round price_history has one entry per round.
C15_RoundProtocol ==
    [][/\ nextId' = nextId + 2 =>
            /\ last.op \in {"init", "record"}
            /\ Len(price_history) = day
       /\ nextId' = nextId + 1 => last.op \in {"provide", "place"}
       /\ (pc = "idle" /\ pc' = "loop") => last.op = "place"
       /\ price_history' # price_history =>
            /\ last.op = "match"
            /\ pc = "idle"
            /\ err = "none"
            /\ price_history' = Append(price_history, mid_price)
            /\ mid_price' = mid_price
            /\ mid_price = NewMid(ret, pre.mid)
            /\ day' = day + 1
            /\ Len(price_history') = day'
            /\ ~(/\ buys # <<>>
                 /\ sells # <<>>
                 /\ RatLeq(sells[1].price, buys[1].price))
       /\ phase' = "done" => Len(price_history') = Days]_vars

\* all rounds done, with a different mid price recorded for each of the
\* first two
C15_Witness ==
    /\ phase = "done"
    /\ Len(price_history) = Days
    /\ price_history[1] # price_history[2]
    /\ price_history[Days] = mid_price

\* ---------------------------------------------------------------------
\* C16: Partial fill.  When the best bid and the best ask cross with
\* positive sizes, one iteration of match_orders trades the smaller size,
\* removes the smaller order and leaves the larger one at the front of its
\* list with its price unchanged and its size reduced by the trade size;
\* with equal sizes it removes both.
C16_PartialFill ==
    [][(pc = "loop" /\ Len(trades') = Len(trades) + 1
          /\ buys[1].size > 0 /\ sells[1].size > 0) =>
         LET b == buys[1]
             a == sells[1]
             t == trades'[Len(trades')]
         IN  /\ b.size < a.size =>
                  /\ t.size = b.size
                  /\ buys' = Tail(buys)
                  /\ sells' = <<[a EXCEPT !.size = a.size - b.size]>> \o Tail(sells)
             /\ a.size < b.size =>
                  /\ t.size = a.size
                  /\ sells' = Tail(sells)
                  /\ buys' = <<[b EXCEPT !.size = b.size - a.size]>> \o Tail(buys)
             /\ a.size = b.size =>
                  /\ t.size = a.size
                  /\ buys' = Tail(buys)
                  /\ sells' = Tail(sells)]_vars

\* a bid of size 1 met an ask of size 2: one trade of size 1, no bid left,
\* the ask left with size 1
C16_Witness ==
    /\ AfterMatch
    /\ Len(pre.buys) = 1 /\ pre.buys[1].size = 1
    /\ Len(pre.sells) = 1 /\ pre.sells[1].size = 2
    /\ Len(ret) = 1 /\ ret[1].size = 1
    /\ buys = <<>>
    /\ Len(sells) = 1
    /\ sells[1].size = 1
    /\ sells[1].price = pre.sells[1].price

\* ---------------------------------------------------------------------
\* C17: Every iteration of match_orders removes at least one order, and
\* every order it removes had the size of the trade; a call never makes
\* two trades between the same two orders, and on a book of b bids and a
\* asks it makes at most b + a - 1 trades -- none when the book is empty,
\* where b + a - 1 is -1.
IterationRemoves ==
    (pc = "loop" /\ Len(trades') = Len(trades) + 1) =>
        LET t == trades'[Len(trades')]
            gone == {o \in Book : o.id \notin Ids(buys') \cup Ids(sells')}
        IN  /\ gone # {}
            /\ \A o \in gone : o.size = t.size
            /\ Len(buys') + Len(sells') < Len(buys) + Len(sells)

DistinctPairs(ts) ==
    \A i, j \in 1..Len(ts) :
        (ts[i].bid = ts[j].bid /\ ts[i].ask = ts[j].ask) => i = j

InCall == pc = "loop" \/ last.op = "match"

C17_TradeCountBound ==
    [][/\ IterationRemoves
       /\ InCall' =>
            /\ DistinctPairs(trades')
            /\ Len(trades') <= MaxOf(0, Len(pre'.buys) + Len(pre'.sells) - 1)]_vars

\* the claim as written: at most b + a - 1 trades on every book
C17_Original ==
    [][/\ IterationRemoves
       /\ InCall' =>
            /\ DistinctPairs(trades')
            /\ Len(trades') <= Len(pre'.buys) + Len(pre'.sells) - 1]_vars

\* a call on three orders that returned two trades
C17_Witness ==
    /\ AfterMatch
    /\ Len(pre.buys) + Len(pre.sells) = 3
    /\ Len(ret) = 2

\* ---------------------------------------------------------------------
\* C18: match_orders never adds an order or moves one to the other side,
\* never changes a price or a side, changes the size only of an order that
\* is at the front of its list in an iteration that trades, and keeps the
\* remaining orders in their relative order; an order that has left the
\* book never comes back.
IndexOf(s, id) == CHOOSE i \in 1..Len(s) : s[i].id = id

KeepsOrder(s, t) ==
    /\ Ids(t) \subseteq Ids(s)
    /\ \A i \in 1..(Len(t) - 1) : IndexOf(s, t[i].id) < IndexOf(s, t[i + 1].id)
    /\ \A i \in 1..Len(t) :
           LET o == s[IndexOf(s, t[i].id)]
           IN  /\ t[i].price = o.price
               /\ t[i].side = o.side
               /\ t[i].size # o.size =>
                      (o = s[1] /\ Len(trades') = Len(trades) + 1)

C18_MatchFrame ==
    [][/\ (pc = "loop" \/ pc' = "loop") =>
            /\ buys' # buys => KeepsOrder(buys, buys')
            /\ sells' # sells => KeepsOrder(sells, sells')
       /\ (buys' # buys \/ sells' # sells) =>
              \A id \in Ids(buys') \cup Ids(sells') :
                  /\ id < nextId'
                  /\ id \in Ids(buys) \cup Ids(sells) \/ id >= nextId]_vars

\* a call that traded left two bids: the partially filled one at the
\* front and an untouched one behind it
C18_Witness ==
    /\ AfterMatch
    /\ ret # <<>>
    /\ Len(buys) = 2
    /\ buys[1].id \in partial
    /\ buys[2].id \notin partial

====
